---- MODULE Spec2Model ----
(***************************************************************************)
(* Model of the Iron tree-walking interpreter (src/src/interp.rs) and of   *)
(* the AST values it evaluates (src/src/ast.rs).                           *)
(*                                                                         *)
(* Environments are Rc<RefCell<Environment>> in the source: shared,        *)
(* mutable frames.  Here a frame is an entry of the sequence `heap` and an *)
(* Rc handle is the index of that entry.  The operand stack is a sequence  *)
(* whose last element is the top.  Rust indices are 0-based, the indices   *)
(* of this module are 1-based: Rust index i is index i+1 here.             *)
(*                                                                         *)
(* fail!() and unwrap() of None abort the task: an evaluation that fails   *)
(* has ok = FALSE, and nothing is evaluated after it.                      *)
(***************************************************************************)
EXTENDS Integers, Sequences, FiniteSets, TLC

VARIABLES mode, root, pc, heap, stack, status, out, log,
          source, pos, line, column, parsed, pstatus, plog

\* the interpreter: mode, the Root being executed and the index of its next
\* form, the frames, the operand stack, the outcome, the output, the history
ivars == <<mode, root, pc, heap, stack, status, out, log>>
\* the parser: code (source), pos, line and column of Parser, the children of
\* the Root that parse is building, the outcome of parse, the history
pvars == <<source, pos, line, column, parsed, pstatus, plog>>

vars == <<mode, root, pc, heap, stack, status, out, log,
          source, pos, line, column, parsed, pstatus, plog>>

(***************************************************************************)
(* Bounds                                                                  *)
(***************************************************************************)
\* number of top-level forms of a program
ProgLen == 3
\* nesting depth of execute_node calls after which the host stack overflows
MaxDepth == 12
\* number of lexemes (single characters or keywords) of a source text
MaxSrcLen == 3

(***************************************************************************)
(* AST values (ast.rs, enum ExprAst).  A Float carries its value in        *)
(* tenths (15 is 1.5).                                                     *)
(***************************************************************************)
Sexpr(op, operands) == [k |-> "Sexpr", op |-> op, operands |-> operands]
String(s) == [k |-> "String", v |-> s]
List(items) == [k |-> "List", items |-> items]
Array(items) == [k |-> "Array", items |-> items]
Ident(name) == [k |-> "Ident", v |-> name]
Symbol(name) == [k |-> "Symbol", v |-> name]
Integer(n) == [k |-> "Integer", v |-> n]
Float(tenths) == [k |-> "Float", v |-> tenths]
Boolean(b) == [k |-> "Boolean", v |-> b]
Nil == [k |-> "Nil"]
Comment(text) == [k |-> "Comment", v |-> text]
Code(params, code, env) == [k |-> "Code", params |-> params, code |-> code, env |-> env]

(***************************************************************************)
(* Environment frames (interp.rs, EnvValue and Environment)                *)
(***************************************************************************)
\* EnvValue::Code(fn): a host built-in, named by the function it points to
EnvCode(name) == [t |-> "Code", name |-> name]
\* EnvValue::Value(ExprAst)
Value(ast) == [t |-> "Value", ast |-> ast]
\* Option::None of find
None == [t |-> "None"]

\* Environment::new(parent): parent 0 is None
NewEnvironment(parent) == [parent |-> parent, values |-> <<>>]

\* HashMap::insert
Insert(values, key, value) ==
  [n \in (DOMAIN values) \cup {key} |-> IF n = key THEN value ELSE values[n]]

\* HashMap::extend: every binding of `more` is inserted
Extend(values, more) ==
  [n \in (DOMAIN values) \cup (DOMAIN more) |-> IF n \in DOMAIN more THEN more[n] ELSE values[n]]

BuiltinNames == {"+", "=", "print", "if", "define", "fn", "get", "set", "len", "import", "type"}

\* Environment::populate_default
populate_default(values) ==
  Extend(Insert(values, "FILE", Value(String(""))), [n \in BuiltinNames |-> EnvCode(n)])

RECURSIVE find(_, _, _)
\* find with the lookup order reversed: the parent chain is searched before
\* the frame itself
findParentFirst(h, env, key) ==
  LET up == IF h[env].parent # 0 THEN find(h, h[env].parent, key) ELSE None
  IN IF up.t # "None" THEN up
     ELSE IF key \in DOMAIN h[env].values THEN h[env].values[key]
     ELSE None

\* Environment::find: the nearest frame of the chain that holds key
find(h, env, key) ==
  IF key \in DOMAIN h[env].values THEN h[env].values[key]
  ELSE IF h[env].parent # 0 THEN find(h, h[env].parent, key)
  ELSE None

RECURSIVE replace(_, _, _, _)
\* replace writing into the frame it is called on, whether or not the frame
\* holds key
replaceCurrent(h, env, key, value) == [h EXCEPT ![env].values = Insert(@, key, value)]

\* Environment::replace: overwrite key in the nearest frame that holds it
replace(h, env, key, value) ==
  IF key \in DOMAIN h[env].values
  THEN [h EXCEPT ![env].values = Insert(@, key, value)]
  ELSE IF h[env].parent # 0 THEN replace(h, h[env].parent, key, value)
  ELSE h

(***************************************************************************)
(* Operand stack helpers (Vec<ExprAst>)                                    *)
(***************************************************************************)
Top(st) == st[Len(st)]
Front(st) == SubSeq(st, 1, Len(st) - 1)
\* Vec::remove at 1-based index i (i must be within the vector)
RemoveAt(st, i) == SubSeq(st, 1, i - 1) \o SubSeq(st, i + 1, Len(st))
\* Vec::pop repeated n times, None results ignored
PopN(st, n) == IF n >= Len(st) THEN <<>> ELSE SubSeq(st, 1, Len(st) - n)

(***************************************************************************)
(* Evaluation state threaded through execute_node:                         *)
(*   heap, stack, out  the program's state                                 *)
(*   ok                FALSE once the task has failed                      *)
(*   ret               the value a built-in returned                       *)
(*   order             the outcome of a HashMap comparison that depends on *)
(*                     the hash order (see HashMapEq)                      *)
(*   log, g            history: one event per execute_node call that       *)
(*                     returned, g the facts about the s-expression in     *)
(*                     progress                                            *)
(***************************************************************************)
Fail(s) == [s EXCEPT !.ok = FALSE]
Push(s, v) == [s EXCEPT !.stack = Append(@, v)]
Return(s, st, v) == [s EXCEPT !.stack = st, !.ret = v]

\* callee: what the operator resolved to ("builtin", "closure"); name: the
\* built-in or the operator; ops: the operand count; before: the stack when
\* the operator is invoked; args: its top ops values; after: the stack when
\* the built-in returned or the parameters were bound; frame, params, bound:
\* the frame of a closure call, the closure's parameters and the bindings made;
\* at, heap0: the number of events logged and the frames when the operator is
\* invoked; cenv: the environment the closure captured
NoGhost == [callee |-> "none", name |-> "", ops |-> 0, before |-> <<>>, args |-> <<>>,
            after |-> <<>>, frame |-> 0, params |-> <<>>, bound |-> <<>>, at |-> 0,
            heap0 |-> <<>>, cenv |-> 0]

RECURSIVE execute_node(_, _, _, _)

(***************************************************************************)
(* Equality of AST values: #[deriving(Eq)] on ExprAst and on every *Ast    *)
(* struct (ast.rs), on Environment and EnvValue (interp.rs).  The derived  *)
(* eq compares field by field, in order, stopping at the first unequal     *)
(* field.  CodeAst has an Rc<RefCell<Environment>> field: Rc and RefCell   *)
(* compare the values they hold, so two Code values are compared by        *)
(* params, code and the contents of their environments.  A comparison that *)
(* comes back to a pair of environments it is already comparing never      *)
(* returns (the host stack overflows): outcome "D".  Outcomes: "T", "F",   *)
(* "D".                                                                    *)
(***************************************************************************)
RECURSIVE AstEq(_, _, _, _, _)
RECURSIVE ItemsEq(_, _, _, _, _, _)
RECURSIVE EnvEq(_, _, _, _, _)

\* &&: the right operand is evaluated only when the left one is true
AndThen(x, y) == IF x = "T" THEN y ELSE x

\* Eq for ~[ExprAst]: same length, then element by element
ItemsEq(h, xs, ys, i, seen, order) ==
  IF Len(xs) # Len(ys) THEN "F"
  ELSE IF i > Len(xs) THEN "T"
  ELSE AndThen(AstEq(h, xs[i], ys[i], seen, order), ItemsEq(h, xs, ys, i + 1, seen, order))

\* the impl of Eq for the built-in fn type: the addresses of the two
\* references are compared, equal exactly for the same slot of the same frame
BuiltinFnEq(e1, e2) == IF e1 = e2 THEN "T" ELSE "F"

\* derived Eq of EnvValue
EnvValueEq(h, e1, e2, a, b, seen, order) ==
  IF a.t # b.t THEN "F"
  ELSE IF a.t = "Code" THEN BuiltinFnEq(e1, e2)
  ELSE AstEq(h, a.ast, b.ast, seen, order)

\* Eq of HashMap: same size and every binding of the one is found equal in
\* the other; the bindings are visited in hash order, which `order` stands
\* for when one binding is unequal and the comparison of another never returns
HashMapEq(h, e1, e2, seen, order) ==
  LET v1 == h[e1].values
      v2 == h[e2].values
      R == {IF n \in DOMAIN v2 THEN EnvValueEq(h, e1, e2, v1[n], v2[n], seen, order) ELSE "F" :
              n \in DOMAIN v1}
  IN IF Cardinality(DOMAIN v1) # Cardinality(DOMAIN v2) THEN "F"
     ELSE IF "F" \in R /\ "D" \in R THEN order
     ELSE IF "F" \in R THEN "F"
     ELSE IF "D" \in R THEN "D"
     ELSE "T"

\* derived Eq of Environment behind Rc<RefCell<..>>: parent, then values
EnvEq(h, e1, e2, seen, order) ==
  IF <<e1, e2>> \in seen THEN "D"
  ELSE LET seen2 == seen \cup {<<e1, e2>>}
           p1 == h[e1].parent
           p2 == h[e2].parent
           parents == IF p1 = 0 /\ p2 = 0 THEN "T"
                      ELSE IF p1 = 0 \/ p2 = 0 THEN "F"
                      ELSE EnvEq(h, p1, p2, seen2, order)
       IN AndThen(parents, HashMapEq(h, e1, e2, seen2, order))

\* Code values treated as opaque: never equal
CodeEqNever(h, a, b, seen, order) == "F"

\* derived Eq of CodeAst: params, code, env
CodeEq(h, a, b, seen, order) ==
  AndThen(ItemsEq(h, a.params, b.params, 1, seen, order),
          AndThen(ItemsEq(h, a.code, b.code, 1, seen, order),
                  EnvEq(h, a.env, b.env, seen, order)))

\* derived Eq of ExprAst
AstEq(h, a, b, seen, order) ==
  IF a.k # b.k THEN "F"
  ELSE IF a.k \in {"Array", "List"} THEN ItemsEq(h, a.items, b.items, 1, seen, order)
  ELSE IF a.k = "Sexpr"
       THEN AndThen(IF a.op = b.op THEN "T" ELSE "F",
                    ItemsEq(h, a.operands, b.operands, 1, seen, order))
  ELSE IF a.k = "Code" THEN CodeEq(h, a, b, seen, order)
  ELSE IF a.k = "Nil" THEN "T"
  ELSE IF a.v = b.v THEN "T" ELSE "F"

(***************************************************************************)
(* Built-ins (interp.rs, impl Environment).  Each takes the state, the     *)
(* environment handle, ops and the remaining depth, and returns the state  *)
(* with the value it returns in ret.  stack.len() - ops is a uint          *)
(* subtraction: when ops exceeds the length it wraps to an index outside   *)
(* the vector, remove returns None and unwrap fails.                       *)
(***************************************************************************)
RECURSIVE AddLoop(_, _, _, _)
\* the while loop of Environment::add; val is kept in tenths
AddLoop(st, ops, val, decimal) ==
  IF ops = 0 THEN [ok |-> TRUE, stack |-> st, val |-> val, decimal |-> decimal]
  ELSE IF Len(st) = 0 THEN [ok |-> FALSE, stack |-> st, val |-> val, decimal |-> decimal]
  ELSE IF Top(st).k = "Integer" THEN AddLoop(Front(st), ops - 1, val + 10 * Top(st).v, decimal)
  ELSE IF Top(st).k = "Float" THEN AddLoop(Front(st), ops - 1, val + Top(st).v, TRUE)
  ELSE [ok |-> FALSE, stack |-> st, val |-> val, decimal |-> decimal]

\* Environment::add
add(s, env, ops, d) ==
  LET r == AddLoop(s.stack, ops, 0, FALSE)
  IN IF ~r.ok THEN Fail(s)
     ELSE Return(s, r.stack, IF r.decimal THEN Float(r.val) ELSE Integer(r.val \div 10))

RECURSIVE PrintLoop(_, _)
\* the while loop of Environment::print; the text of a String is printed as
\* it is (the strings of the model hold no backslash)
PrintLoop(s, ops) ==
  IF ops = 0 THEN s
  ELSE IF Len(s.stack) < ops THEN Fail(s)
  ELSE LET i == Len(s.stack) - ops + 1
           x == s.stack[i]
       IN IF x.k \in {"Integer", "Float", "String", "Symbol", "Boolean"}
          THEN PrintLoop([s EXCEPT !.stack = RemoveAt(@, i), !.out = Append(@, x)], ops - 1)
          ELSE Fail([s EXCEPT !.stack = RemoveAt(@, i)])

\* Environment::print
print(s, env, ops, d) ==
  LET r == PrintLoop(s, ops)
  IN IF ~r.ok THEN r ELSE Return(r, r.stack, Integer(0))

\* define inserting into the global frame
DefineFrameGlobal(h, env) == 1

\* the frame define inserts into: the environment it was called with
DefineFrame(h, env) == env

\* Environment::define
define(s, env, ops, d) ==
  IF ops # 2 THEN Fail(s)
  ELSE IF Len(s.stack) = 0 THEN Fail(s)
  ELSE LET popped == Top(s.stack)
           s1 == [s EXCEPT !.stack = Front(@)]
           s2 == IF popped.k = "Sexpr" THEN execute_node(s1, env, popped, d - 1) ELSE s1
       IN IF ~s2.ok THEN s2
          ELSE IF popped.k = "Sexpr" /\ Len(s2.stack) = 0 THEN Fail(s2)
          ELSE LET valast == IF popped.k = "Sexpr" THEN Top(s2.stack) ELSE popped
                   st3 == IF popped.k = "Sexpr" THEN Front(s2.stack) ELSE s2.stack
               IN IF Len(st3) = 0 THEN Fail(s2)
                  ELSE IF Top(st3).k # "Ident" THEN Fail(s2)
                  ELSE LET name == Top(st3).v
                           f == DefineFrame(s2.heap, env)
                       IN Return([s2 EXCEPT !.heap[f].values = Insert(@, name, Value(valast))],
                                 Front(st3), valast)

\* Environment::function
function(s, env, ops, d) ==
  IF ops = 0 THEN Fail(s)
  ELSE IF Len(s.stack) < ops THEN Fail(s)
  ELSE LET i == Len(s.stack) - ops + 1
           params == s.stack[i]
       IN IF params.k # "Array" THEN Fail(s)
          ELSE Return(s, SubSeq(s.stack, 1, i - 1),
                      Code(params.items, SubSeq(s.stack, i + 1, Len(s.stack)), env))

\* the index computation shared by get and set: a negative index counts from
\* the end; -1 stands for the failure
Index(idx, arrlen) ==
  IF idx < 0 THEN (IF arrlen < -idx THEN -1 ELSE arrlen + idx) ELSE idx

\* Environment::get
get(s, env, ops, d) ==
  IF ops # 2 THEN Fail(s)
  ELSE IF Len(s.stack) < 2 THEN Fail(s)
  ELSE LET L == Len(s.stack)
           arr == s.stack[L - 1]
           idx == s.stack[L]
       IN IF arr.k # "Array" THEN Fail(s)
          ELSE IF idx.k # "Integer" THEN Fail(s)
          ELSE LET i == Index(idx.v, Len(arr.items))
               IN IF i < 0 \/ i >= Len(arr.items) THEN Fail(s)
                  ELSE Return(s, SubSeq(s.stack, 1, L - 2), arr.items[i + 1])

\* Vec::grow_set(index, initval, value)
grow_set(vec, index, initval, value) ==
  [j \in 1..(IF index + 1 > Len(vec) THEN index + 1 ELSE Len(vec)) |->
     IF j = index + 1 THEN value ELSE IF j <= Len(vec) THEN vec[j] ELSE initval]

\* Environment::set
set(s, env, ops, d) ==
  IF ops # 3 THEN Fail(s)
  ELSE IF Len(s.stack) < 3 THEN Fail(s)
  ELSE LET L == Len(s.stack)
           first == s.stack[L - 2]
           st1 == RemoveAt(s.stack, L - 2)
       IN IF first.k = "Array" THEN Return(s, st1, Nil)
          ELSE IF first.k # "Ident" THEN Fail(s)
          ELSE LET val == find(s.heap, env, first.v)
               IN IF val.t # "Value" THEN Fail(s)
                  ELSE IF val.ast.k # "Array" THEN Fail(s)
                  ELSE LET idx == st1[L - 2]
                           value == st1[L - 1]
                       IN IF idx.k # "Integer" THEN Fail(s)
                          ELSE LET i == Index(idx.v, Len(val.ast.items))
                               IN IF i < 0 THEN Fail(s)
                                  ELSE Return([s EXCEPT !.heap = replace(@, env, first.v,
                                                   Value(Array(grow_set(val.ast.items, i, Nil, value))))],
                                              SubSeq(s.stack, 1, L - 3), Nil)

\* Environment::len
len(s, env, ops, d) ==
  IF ops # 1 THEN Fail(s)
  ELSE IF Len(s.stack) = 0 THEN Fail(s)
  ELSE IF Top(s.stack).k # "Array" THEN Fail(s)
  ELSE Return(s, Front(s.stack), Integer(Len(Top(s.stack).items)))

RECURSIVE EqualLoop(_, _, _, _)
\* the while loop of Environment::equal: "T" all popped values equal cmpast,
\* "F" one differs (the loop returns at once), "X" the task fails
EqualLoop(s, st, ops, cmpast) ==
  IF ops = 0 THEN [r |-> "T", stack |-> st]
  ELSE IF Len(st) = 0 THEN [r |-> "X", stack |-> st]
  ELSE LET e == AstEq(s.heap, Top(st), cmpast, {}, s.order)
       IN IF e = "D" THEN [r |-> "X", stack |-> Front(st)]
          ELSE IF e = "F" THEN [r |-> "F", stack |-> Front(st)]
          ELSE EqualLoop(s, Front(st), ops - 1, cmpast)

\* Environment::equal
equal(s, env, ops, d) ==
  IF ops < 2 THEN Fail(s)
  ELSE IF Len(s.stack) = 0 THEN Fail(s)
  ELSE LET r == EqualLoop(s, Front(s.stack), ops - 1, Top(s.stack))
       IN IF r.r = "X" THEN Fail(s)
          ELSE Return(s, r.stack, Boolean(r.r = "T"))

\* ifexpr evaluating the else branch whenever there is one, and the then
\* branch always
BranchesBoth(cond, hasElse) ==
  (IF hasElse THEN <<"else">> ELSE <<>>) \o <<"then">>

\* the branches ifexpr evaluates, in the order it evaluates them
Branches(cond, hasElse) ==
  (IF hasElse /\ ~cond THEN <<"else">> ELSE <<>>) \o (IF cond THEN <<"then">> ELSE <<>>)

\* Environment::ifexpr
ifexpr(s, env, ops, d) ==
  IF ops < 2 \/ ops > 3 THEN Fail(s)
  ELSE IF Len(s.stack) < ops THEN Fail(s)
  ELSE LET i == Len(s.stack) - ops + 1
           condast == s.stack[i]
           st1 == RemoveAt(s.stack, i)
           ontrue == st1[i]
           st2 == RemoveAt(st1, i)
           hasElse == ops - 2 > 0
           onfalse == Top(st2)
           st3 == IF hasElse THEN Front(st2) ELSE st2
       IN IF condast.k # "Boolean" THEN Fail(s)
          ELSE LET br == Branches(condast.v, hasElse)
                   sA == [s EXCEPT !.stack = st3]
                   sB == IF \E j \in DOMAIN br : br[j] = "else"
                         THEN execute_node(sA, env, onfalse, d - 1) ELSE sA
                   sC == IF \E j \in DOMAIN br : br[j] = "then"
                         THEN execute_node(sB, env, ontrue, d - 1) ELSE sB
               IN IF ~sC.ok THEN sC
                  ELSE IF Len(sC.stack) = 0 THEN Fail(sC)
                  ELSE Return(sC, Front(sC.stack), Top(sC.stack))

\* Environment::type_obj
type_obj(s, env, ops, d) ==
  IF ops # 1 THEN Fail(s)
  ELSE IF Len(s.stack) = 0 THEN Fail(s)
  ELSE LET x == Top(s.stack)
           name == CASE x.k = "Integer" -> "integer"
                     [] x.k = "Float" -> "float"
                     [] x.k = "Array" -> "array"
                     [] x.k = "List" -> "list"
                     [] x.k = "String" -> "string"
                     [] x.k = "Symbol" -> "symbol"
                     [] x.k = "Code" -> "code"
                     [] x.k = "Boolean" -> "boolean"
                     [] x.k = "Nil" -> "nil"
                     [] OTHER -> ""
       IN IF name = "" THEN Fail(s) ELSE Return(s, Front(s.stack), Symbol(name))

(***************************************************************************)
(* import.  The files the module resolver can find: a path is mapped to    *)
(* the Root the parser yields for the file's text.                         *)
(***************************************************************************)
\* paths that start with "./" or "../"
RelativePaths == {"./m", "./none"}
\* the files that exist, by the path written in the import
Files == [p \in {"./m"} |-> <<Sexpr("define", <<Ident("y"), Integer(7)>>)>>]

RECURSIVE ExecuteForms(_, _, _, _, _)
\* the for loop of Interpreter::execute: every form is evaluated on the
\* interpreter's own stack, which is cleared after each
ExecuteForms(s, env, asts, i, d) ==
  IF ~s.ok \/ i > Len(asts) THEN s
  ELSE ExecuteForms([execute_node(s, env, asts[i], d) EXCEPT !.stack = <<>>], env, asts, i + 1, d)

RECURSIVE ImportLoop(_, _, _, _)
\* the while loop of Environment::importexpr
ImportLoop(s, env, ops, d) ==
  IF ops = 0 THEN s
  ELSE IF Len(s.stack) < ops THEN Fail(s)
  ELSE LET i == Len(s.stack) - ops + 1
           x == s.stack[i]
           s1 == [s EXCEPT !.stack = RemoveAt(@, i)]
       IN IF x.k # "String" THEN Fail(s1)
          ELSE IF x.v \notin RelativePaths THEN Fail(s1)
          ELSE IF x.v \notin DOMAIN Files THEN Fail(s1)
          ELSE IF d = 0 THEN Fail(s1)
          ELSE LET \* Interpreter::new, set_file
                   interp == Len(s1.heap) + 1
                   h1 == Append(s1.heap,
                                [NewEnvironment(0) EXCEPT
                                   !.values = Insert(populate_default(@), "FILE", Value(String(x.v)))])
                   \* interp.execute() runs on the stack of the new interpreter
                   r == ExecuteForms([s1 EXCEPT !.heap = h1, !.stack = <<>>], interp, Files[x.v], 1, d - 1)
               IN IF ~r.ok THEN r
                  ELSE ImportLoop([r EXCEPT !.stack = s1.stack,
                                            !.heap[env].values = Extend(@, r.heap[interp].values)],
                                  env, ops - 1, d)

\* Environment::importexpr
importexpr(s, env, ops, d) ==
  IF ops = 0 THEN Fail(s)
  ELSE LET r == ImportLoop(s, env, ops, d)
       IN IF ~r.ok THEN r ELSE Return(r, r.stack, Nil)

\* the call through the fn pointer held by EnvValue::Code
Thunk(name, s, env, ops, d) ==
  CASE name = "+" -> add(s, env, ops, d)
    [] name = "=" -> equal(s, env, ops, d)
    [] name = "print" -> print(s, env, ops, d)
    [] name = "if" -> ifexpr(s, env, ops, d)
    [] name = "define" -> define(s, env, ops, d)
    [] name = "fn" -> function(s, env, ops, d)
    [] name = "get" -> get(s, env, ops, d)
    [] name = "set" -> set(s, env, ops, d)
    [] name = "len" -> len(s, env, ops, d)
    [] name = "import" -> importexpr(s, env, ops, d)
    [] name = "type" -> type_obj(s, env, ops, d)

(***************************************************************************)
(* Interpreter::execute_node                                               *)
(***************************************************************************)
\* the identifiers that end with "...", with the name slice_to(len - 3) yields
Variadic == [n \in {"xs..."} |-> "xs"]
ends_with_dots(name) == name \in DOMAIN Variadic

RECURSIVE EvalOperands(_, _, _, _, _)
\* for subast in operands[i..] { execute_node(env, stack, subast) }
EvalOperands(s, env, operands, i, d) ==
  IF ~s.ok \/ i > Len(operands) THEN s
  ELSE EvalOperands(execute_node(s, env, operands[i], d), env, operands, i + 1, d)

RECURSIVE PushAll(_, _, _)
\* for subast in operands[i..] { stack.push(subast.clone()) }
PushAll(st, operands, i) ==
  IF i > Len(operands) THEN st ELSE PushAll(Append(st, operands[i]), operands, i + 1)

\* a dispatch that knows no special form: every operand is evaluated
PushOperandsAll(s, env, sast, d) == EvalOperands(s, env, sast.operands, 1, d)

\* the operands the special-form dispatch evaluates, by operator name
\* (lines 95-122): the rest is pushed as it is
PushOperands(s, env, sast, d) ==
  LET operands == sast.operands
  IN IF sast.op = "fn" THEN [s EXCEPT !.stack = PushAll(@, operands, 1)]
     ELSE IF sast.op = "if"
     THEN LET s1 == IF Len(operands) > 0 THEN execute_node(s, env, operands[1], d) ELSE s
          IN IF ~s1.ok THEN s1 ELSE [s1 EXCEPT !.stack = PushAll(@, operands, 2)]
     ELSE IF sast.op \in {"define", "set"}
     THEN IF Len(operands) > 0
          THEN EvalOperands(Push(s, operands[1]), env, operands, 2, d)
          ELSE s
     ELSE EvalOperands(s, env, operands, 1, d)

\* what a variadic parameter takes of the len arguments when count
\* parameters were bound before it: Vec::from_fn(len - count, ..)
VariadicCount(arglen, count) == arglen - count

\* a parameter that finds no argument left takes the value below the
\* arguments
ArgIndexBelow(st, idx) == IF idx > Len(st) THEN Len(st) ELSE idx

\* the index a parameter's value is removed at: stack.remove(idx), idx fixed
\* at the first argument (line 145)
ArgIndex(st, idx) == idx

RECURSIVE BindParams(_, _, _, _, _, _)
\* the for loop over ast.params.items (lines 147-162); i - 1 is count
BindParams(st, values, params, i, arglen, idx) ==
  IF i > Len(params) THEN [ok |-> TRUE, stack |-> st, values |-> values]
  ELSE IF params[i].k # "Ident" THEN [ok |-> FALSE, stack |-> st, values |-> values]
  ELSE IF ends_with_dots(params[i].v)
  THEN LET n == VariadicCount(arglen, i - 1)
       IN IF n < 0 \/ idx + n - 1 > Len(st) THEN [ok |-> FALSE, stack |-> st, values |-> values]
          ELSE BindParams(SubSeq(st, 1, idx - 1) \o SubSeq(st, idx + n, Len(st)),
                          Insert(values, Variadic[params[i].v], Value(Array(SubSeq(st, idx, idx + n - 1)))),
                          params, i + 1, arglen, idx)
  ELSE IF ArgIndex(st, idx) < 1 \/ ArgIndex(st, idx) > Len(st)
  THEN [ok |-> FALSE, stack |-> st, values |-> values]
  ELSE BindParams(RemoveAt(st, ArgIndex(st, idx)),
                  Insert(values, params[i].v, Value(st[ArgIndex(st, idx)])),
                  params, i + 1, arglen, idx)

RECURSIVE ExecBody(_, _, _, _, _)
\* for subast in ast.code { execute_node(subenv, stack, subast) }
ExecBody(s, subenv, code, i, d) ==
  IF ~s.ok \/ i > Len(code) THEN s
  ELSE ExecBody(execute_node(s, subenv, code[i], d), subenv, code, i + 1, d)

\* the excess taken from the front of the arguments: the first n - p of the
\* top n values are removed
DropExcessFirst(st, n, p) ==
  IF n > p /\ Len(st) >= n
  THEN SubSeq(st, 1, Len(st) - n) \o SubSeq(st, Len(st) - p + 1, Len(st))
  ELSE st

\* the stack the binding starts from: the arguments beyond the parameter
\* count are popped (lines 138-144)
DropExcess(st, n, p) == IF n > p THEN PopN(st, n - p) ELSE st

\* dynamic scope: the parent of the frame of a call is the caller's environment
ClosureParentCaller(env, ast) == env

\* the parent of the frame of a call (line 137): the environment the closure
\* captured
ClosureParent(env, ast) == ast.env

\* closure application (lines 134-168)
Apply(s, env, sast, ast, d) ==
  LET n == Len(sast.operands)
      p == Len(ast.params)
      st1 == DropExcess(s.stack, n, p)
      arglen == IF n > p THEN p ELSE n
      idx == Len(st1) - arglen + 1
      b == BindParams(st1, <<>>, ast.params, 1, arglen, idx)
      subenv == Len(s.heap) + 1
  IN IF Len(st1) < arglen /\ p > 0 THEN Fail(s)
     ELSE IF ~b.ok THEN Fail(s)
     ELSE LET s1 == [s EXCEPT !.stack = b.stack,
                              !.heap = Append(@, [NewEnvironment(ClosureParent(env, ast)) EXCEPT
                                                    !.values = b.values])]
              r == ExecBody(s1, subenv, ast.code, 1, d)
          IN IF ~r.ok THEN r
             ELSE [r EXCEPT !.g = [NoGhost EXCEPT !.callee = "closure", !.name = sast.op, !.ops = n,
                                     !.before = s.stack,
                                     !.args = IF Len(s.stack) >= n
                                              THEN SubSeq(s.stack, Len(s.stack) - n + 1, Len(s.stack))
                                              ELSE s.stack,
                                     !.after = b.stack, !.frame = subenv,
                                     !.params = ast.params, !.bound = b.values, !.at = Len(s.log),
                                     !.heap0 = s.heap, !.cenv = ast.env]]

\* lines 128-131: the built-in has returned r, its value is pushed
CallBuiltin(s1, name, n, r) ==
  IF ~r.ok THEN r
  ELSE [r EXCEPT !.stack = Append(@, r.ret),
                 !.g = [NoGhost EXCEPT !.callee = "builtin", !.name = name, !.ops = n,
                          !.args = IF Len(s1.stack) >= n
                                   THEN SubSeq(s1.stack, Len(s1.stack) - n + 1, Len(s1.stack))
                                   ELSE s1.stack,
                          !.before = s1.stack, !.after = r.stack, !.at = Len(s1.log),
                          !.heap0 = s1.heap]]

\* lines 123-171: the operands are on the stack (state s1), the operator is
\* looked up and called
Dispatch(s1, env, sast, d) ==
  IF ~s1.ok THEN s1
  ELSE LET thing == find(s1.heap, env, sast.op)
           n == Len(sast.operands)
       IN IF thing.t = "None" THEN Fail(s1)
          ELSE IF thing.t = "Code"
          THEN CallBuiltin(s1, thing.name, n, Thunk(thing.name, s1, env, n, d))
          ELSE IF thing.ast.k = "Code" THEN Apply(s1, env, sast, thing.ast, d)
          ELSE Fail(s1)

\* the Sexpr arm (lines 93-172)
ExecSexpr(s, env, sast, d) == Dispatch(PushOperands(s, env, sast, d), env, sast, d)

\* the trim loop (lines 182-185)
Trim(st, stacklen) == IF Len(st) > stacklen + 1 THEN SubSeq(st, 1, stacklen + 1) ELSE st

\* the end of execute_node: r is the state the match arm left, the stack is
\* trimmed to stacklen + 1
Leave(s, env, node, r) ==
  IF ~r.ok THEN r
  ELSE LET post == Trim(r.stack, Len(s.stack))
       IN [r EXCEPT !.stack = post,
                    !.log = Append(@, [node |-> node, env |-> env, start |-> Len(s.log),
                                       pre |-> s.stack, post |-> post, heap |-> r.heap,
                                       g |-> r.g])]

\* the Ident arm (lines 173-179)
ExecIdent(s, env, node) ==
  LET val == find(s.heap, env, node.v)
  IN IF val.t = "Value" THEN Push(s, val.ast) ELSE Fail(s)

execute_node(s, env, node, d) ==
  IF ~s.ok THEN s
  ELSE IF d = 0 THEN Fail(s)
  ELSE Leave(s, env, node,
             IF node.k = "Sexpr" THEN ExecSexpr([s EXCEPT !.g = NoGhost], env, node, d - 1)
             ELSE IF node.k = "Ident" THEN ExecIdent([s EXCEPT !.g = NoGhost], env, node)
             ELSE Push([s EXCEPT !.g = NoGhost], node))

(***************************************************************************)
(* The parser (src/src/parser.rs).  The source text is a sequence of       *)
(* characters, each a string of length one; pos is the 0-based index of    *)
(* the source, so the character at pos is src[pos + 1].  The text of an    *)
(* identifier, string, symbol or comment is the sequence of its            *)
(* characters.  char_at on an index that is not below the length fails the *)
(* task with an index out of bounds: panic = TRUE, and nothing is parsed   *)
(* after it.                                                               *)
(*                                                                         *)
(* The state threaded through the parse functions holds pos, line and      *)
(* column of the Parser, the result res of the function that returned      *)
(* last, and the history plog: one event per parse_expr call that          *)
(* returned, with the attempts it made.                                    *)
(***************************************************************************)
\* the characters of the sources
Alphabet == {"1", "5", ".", "-", "(", ")", "[", "]", "'", ";", "\"", "\n", "a"}

\* char::to_digit(10) of the digits
DigitValue == [c \in {"0", "1", "2", "3", "4", "5", "6", "7", "8", "9"} |->
                 CASE c = "0" -> 0 [] c = "1" -> 1 [] c = "2" -> 2 [] c = "3" -> 3 [] c = "4" -> 4
                   [] c = "5" -> 5 [] c = "6" -> 6 [] c = "7" -> 7 [] c = "8" -> 8 [] c = "9" -> 9]

is_digit(ch) == ch \in DOMAIN DigitValue
is_whitespace(ch) == ch \in {" ", "\n", "\t", "\r"}
is_alphabetic(ch) ==
  ch \in {"a", "b", "c", "d", "e", "f", "g", "h", "i", "j", "k", "l", "m", "n", "o", "p", "q", "r",
          "s", "t", "u", "v", "w", "x", "y", "z"}

\* Parser::is_ident_char
is_ident_char(ch) ==
  ~(is_digit(ch) \/ is_whitespace(ch) \/ ch \in {"(", ")", "[", "]", "'", "\"", ";"})

\* str::char_at, for an index below the length
char_at(src, i) == src[i + 1]

\* ParseError
NoError == [line |-> 0, column |-> 0, desc |-> "", expect |-> "", found |-> <<>>]

\* Parser::eof_error
eof_error(p) == [NoError EXCEPT !.line = p.line, !.column = p.column, !.desc = "end of file"]

\* Parser::unexpected_error: "expected {expect} but found {found}"
unexpected_error(p, expect, found) ==
  [line |-> p.line, column |-> p.column, desc |-> "expected", expect |-> expect, found |-> found]

\* ParseResult: Ok(ast), Ok((val, digits)) of parse_integer_val, Err(err)
NoRes == [t |-> "None", ast |-> Nil, val |-> 0, digits |-> 0, err |-> NoError]
Ok(p, ast) == [p EXCEPT !.res = [NoRes EXCEPT !.t = "Ok", !.ast = ast]]
OkVal(p, val, digits) == [p EXCEPT !.res = [NoRes EXCEPT !.t = "Ok", !.val = val, !.digits = digits]]
Err(p, e) == [p EXCEPT !.res = [NoRes EXCEPT !.t = "Err", !.err = e]]
\* the task fails: index out of bounds
Panic(p) == [p EXCEPT !.panic = TRUE, !.res = NoRes]
\* try!: the callee did not return Ok
Stops(r) == r.panic \/ r.res.t # "Ok"

\* Parser::add_line
add_line(p) == [p EXCEPT !.line = @ + 1, !.column = 1]

\* Parser::inc_pos_col
inc_pos_col(p) == [p EXCEPT !.column = @ + 1, !.pos = @ + 1]

\* the body shared by the loops of skip_whitespace and parse_string: the
\* character at pos is passed over
pass_char(src, p) ==
  [(IF char_at(src, p.pos) = "\n" THEN add_line(p) ELSE [p EXCEPT !.column = @ + 1])
     EXCEPT !.pos = @ + 1]

RECURSIVE skip_whitespace(_, _)
\* Parser::skip_whitespace
skip_whitespace(src, p) ==
  IF p.pos < Len(src) /\ is_whitespace(char_at(src, p.pos))
  THEN skip_whitespace(src, pass_char(src, p))
  ELSE p

RECURSIVE ScanDigits(_, _, _, _)
\* the while loop of parse_integer_val
ScanDigits(src, p, number, digits) ==
  IF p.pos < Len(src) /\ is_digit(char_at(src, p.pos))
  THEN ScanDigits(src, inc_pos_col(p), number * 10 + DigitValue[char_at(src, p.pos)], digits + 1)
  ELSE [p |-> p, number |-> number, digits |-> digits]

\* the end of parse_integer_val (lines 166-170): the error message reads the
\* character at pos
IntegerVal(src, scan, neg) ==
  IF scan.digits = 0
  THEN IF scan.p.pos >= Len(src) THEN Panic(scan.p)
       ELSE Err(scan.p, unexpected_error(scan.p, "integer", <<char_at(src, scan.p.pos)>>))
  ELSE OkVal(scan.p, IF neg THEN -scan.number ELSE scan.number, scan.digits)

\* the sign of parse_integer_val (lines 152-158), p after skip_whitespace
IntegerSign(src, p) ==
  IF p.pos = Len(src) THEN Err(p, eof_error(p))
  ELSE IF char_at(src, p.pos) = "-"
  THEN IntegerVal(src, ScanDigits(src, inc_pos_col(p), 0, 0), TRUE)
  ELSE IntegerVal(src, ScanDigits(src, p, 0, 0), FALSE)

\* Parser::parse_integer_val
parse_integer_val(src, p) == IntegerSign(src, skip_whitespace(src, p))

\* Ok(Integer(..)) of parse_integer
IntegerOf(r) == IF Stops(r) THEN r ELSE Ok(r, Integer(r.res.val))

\* Parser::parse_integer
parse_integer(src, p) == IntegerOf(parse_integer_val(src, p))

RECURSIVE Pow10(_)
\* num::pow(10u, n)
Pow10(n) == IF n = 0 THEN 1 ELSE 10 * Pow10(n - 1)

\* front as f64 + back as f64 / pow(10, digits) as f64, in tenths: the digits
\* after the first fractional one are below the resolution of the model
FloatValue(front, back, digits) == front * 10 + (back * 10) \div Pow10(digits)

\* line 186, back the result of the second parse_integer_val
FloatOf(front, back) ==
  IF Stops(back) THEN back
  ELSE Ok(back, Float(FloatValue(front, back.res.val, back.res.digits)))

\* lines 176-188, r the result of the first parse_integer_val
FloatBack(src, r) ==
  IF Stops(r) THEN r
  ELSE IF r.pos + 1 >= Len(src) THEN Err(r, eof_error(r))
  ELSE IF char_at(src, r.pos) # "."
  THEN Err(r, unexpected_error(r, "'.'", <<char_at(src, r.pos)>>))
  ELSE IF ~is_digit(char_at(src, r.pos + 1))
  THEN Err(inc_pos_col(r), unexpected_error(inc_pos_col(r), "float", <<char_at(src, r.pos + 1)>>))
  ELSE FloatOf(r.res.val, parse_integer_val(src, inc_pos_col(r)))

\* Parser::parse_float
parse_float(src, p) == FloatBack(src, parse_integer_val(src, p))

RECURSIVE IdentLoop(_, _, _)
\* the loop of parse_ident_stack (lines 258-268), entered with pos below the
\* length
IdentLoop(src, p, ident) ==
  IF ~is_ident_char(char_at(src, p.pos)) THEN [p |-> p, buf |-> ident]
  ELSE IF p.pos + 1 = Len(src)
  THEN [p |-> inc_pos_col(p), buf |-> Append(ident, char_at(src, p.pos))]
  ELSE IdentLoop(src, inc_pos_col(p), Append(ident, char_at(src, p.pos)))

\* lines 269-277
IdentEnd(src, scan) ==
  IF Len(scan.buf) = 0
  THEN IF scan.p.pos = Len(src) THEN Err(scan.p, eof_error(scan.p))
       ELSE Err(scan.p, unexpected_error(scan.p, "ident", <<char_at(src, scan.p.pos)>>))
  ELSE Ok(scan.p, Ident(scan.buf))

\* lines 254-256, p after skip_whitespace
IdentStart(src, p) ==
  IF p.pos = Len(src) THEN Err(p, eof_error(p)) ELSE IdentEnd(src, IdentLoop(src, p, <<>>))

\* Parser::parse_ident_stack: the IdentAst is the ast of the result
parse_ident_stack(src, p) == IdentStart(src, skip_whitespace(src, p))

\* Parser::parse_ident
parse_ident(src, p) == parse_ident_stack(src, p)

RECURSIVE StringLoop(_, _, _)
\* the while loop of parse_string (lines 289-297)
StringLoop(src, p, buf) ==
  IF p.pos < Len(src) /\ (char_at(src, p.pos) # "\"" \/ char_at(src, p.pos - 1) = "\\")
  THEN StringLoop(src, pass_char(src, p), Append(buf, char_at(src, p.pos)))
  ELSE [p |-> p, buf |-> buf]

\* lines 298-303
StringEnd(src, scan) ==
  IF scan.p.pos = Len(src) THEN Err(scan.p, eof_error(scan.p))
  ELSE Ok(inc_pos_col(scan.p), String(scan.buf))

\* lines 284-306, p after skip_whitespace
StringStart(src, p) ==
  IF p.pos = Len(src) THEN Err(p, eof_error(p))
  ELSE IF char_at(src, p.pos) = "\"" THEN StringEnd(src, StringLoop(src, inc_pos_col(p), <<>>))
  ELSE Err(p, unexpected_error(p, "\"", <<char_at(src, p.pos)>>))

\* Parser::parse_string
parse_string(src, p) == StringStart(src, skip_whitespace(src, p))

RECURSIVE AlphaLoop(_, _, _)
\* the while loop of parse_boolean and of parse_nil
AlphaLoop(src, p, buf) ==
  IF p.pos < Len(src) /\ is_alphabetic(char_at(src, p.pos))
  THEN AlphaLoop(src, inc_pos_col(p), Append(buf, char_at(src, p.pos)))
  ELSE [p |-> p, buf |-> buf]

\* lines 320-325
BooleanEnd(scan) ==
  IF scan.buf = <<"t", "r", "u", "e">> THEN Ok(scan.p, Boolean(TRUE))
  ELSE IF scan.buf = <<"f", "a", "l", "s", "e">> THEN Ok(scan.p, Boolean(FALSE))
  ELSE Err(scan.p, unexpected_error(scan.p, "\"true\" or \"false\"", scan.buf))

\* lines 312-326, p after skip_whitespace
BooleanStart(src, p) ==
  IF p.pos = Len(src) THEN Err(p, eof_error(p)) ELSE BooleanEnd(AlphaLoop(src, p, <<>>))

\* Parser::parse_boolean
parse_boolean(src, p) == BooleanStart(src, skip_whitespace(src, p))

\* lines 340-345
NilEnd(scan) ==
  IF scan.buf = <<"n", "i", "l">> THEN Ok(scan.p, Nil)
  ELSE Err(scan.p, unexpected_error(scan.p, "\"nil\"", scan.buf))

\* lines 332-346, p after skip_whitespace
NilStart(src, p) ==
  IF p.pos = Len(src) THEN Err(p, eof_error(p)) ELSE NilEnd(AlphaLoop(src, p, <<>>))

\* Parser::parse_nil
parse_nil(src, p) == NilStart(src, skip_whitespace(src, p))

\* line 360
SymbolOf(r) == IF Stops(r) THEN r ELSE Ok(r, Symbol(r.res.ast.v))

\* lines 352-363, p after skip_whitespace
SymbolStart(src, p) ==
  IF p.pos + 1 >= Len(src) THEN Err(p, eof_error(p))
  ELSE IF ~is_ident_char(char_at(src, p.pos + 1))
  THEN Err([p EXCEPT !.column = @ + 1],
           unexpected_error([p EXCEPT !.column = @ + 1], "alphabetic character",
                            <<char_at(src, p.pos + 1)>>))
  ELSE IF char_at(src, p.pos) = "'" THEN SymbolOf(parse_ident_stack(src, inc_pos_col(p)))
  ELSE Err(p, unexpected_error(p, "\"'\"", <<char_at(src, p.pos)>>))

\* Parser::parse_symbol
parse_symbol(src, p) == SymbolStart(src, skip_whitespace(src, p))

RECURSIVE CommentLoop(_, _, _)
\* the while loop of parse_comment
CommentLoop(src, p, buf) ==
  IF p.pos < Len(src) /\ char_at(src, p.pos) # "\n"
  THEN CommentLoop(src, inc_pos_col(p), Append(buf, char_at(src, p.pos)))
  ELSE [p |-> p, buf |-> buf]

\* line 378
CommentOf(scan) == Ok(scan.p, Comment(scan.buf))

\* lines 369-381, p after skip_whitespace
CommentStart(src, p) ==
  IF p.pos = Len(src) THEN Err(p, eof_error(p))
  ELSE IF char_at(src, p.pos) = ";" THEN CommentOf(CommentLoop(src, inc_pos_col(p), <<>>))
  ELSE Err(p, unexpected_error(p, "';'", <<char_at(src, p.pos)>>))

\* Parser::parse_comment
parse_comment(src, p) == CommentStart(src, skip_whitespace(src, p))

RECURSIVE parse_expr(_, _)
RECURSIVE ItemsLoop(_, _, _, _)

\* items.push(try!(self.parse_expr())), r the result of parse_expr
ItemsPush(src, r, close, items) ==
  IF Stops(r) THEN r ELSE ItemsLoop(src, r, close, Append(items, r.res.ast))

\* one iteration of the loop of parse_sexpr, parse_list and parse_array, p
\* after skip_whitespace
ItemsStep(src, p, close, items) ==
  IF p.pos = Len(src) THEN Err(p, eof_error(p))
  ELSE IF char_at(src, p.pos) = close THEN Ok(inc_pos_col(p), List(items))
  ELSE ItemsPush(src, parse_expr(src, p), close, items)

\* the loop of parse_sexpr, parse_list and parse_array: expressions up to the
\* closing character; the items are those of the List in the result
ItemsLoop(src, p, close, items) == ItemsStep(src, skip_whitespace(src, p), close, items)

\* line 136, r the result of the loop
SexprOf(op, r) == IF Stops(r) THEN r ELSE Ok(r, Sexpr(op, r.res.ast.items))

\* lines 123-135, r the result of parse_ident_stack
SexprOperands(src, r) ==
  IF Stops(r) THEN r ELSE SexprOf(r.res.ast.v, ItemsLoop(src, r, ")", <<>>))

\* lines 119-139, p after skip_whitespace
SexprStart(src, p) ==
  IF p.pos = Len(src) THEN Err(p, eof_error(p))
  ELSE IF char_at(src, p.pos) = "(" THEN SexprOperands(src, parse_ident_stack(src, inc_pos_col(p)))
  ELSE Err(p, unexpected_error(p, "'('", <<char_at(src, p.pos)>>))

\* Parser::parse_sexpr
parse_sexpr(src, p) == SexprStart(src, skip_whitespace(src, p))

\* line 210, r the result of the loop
ArrayOf(r) == IF Stops(r) THEN r ELSE Ok(r, Array(r.res.ast.items))

\* lines 194-213, p after skip_whitespace
ArrayStart(src, p) ==
  IF p.pos + 1 >= Len(src) THEN Err(p, eof_error(p))
  ELSE IF char_at(src, p.pos) = "[" THEN ArrayOf(ItemsLoop(src, inc_pos_col(p), "]", <<>>))
  ELSE Err(p, unexpected_error(p, "'['", <<char_at(src, p.pos)>>))

\* Parser::parse_array
parse_array(src, p) == ArrayStart(src, skip_whitespace(src, p))

\* lines 219-243, p after skip_whitespace
ListStart(src, p) ==
  IF p.pos + 2 >= Len(src) THEN Err(p, eof_error(p))
  ELSE IF char_at(src, p.pos) = "'"
  THEN IF char_at(src, p.pos + 1) = "("
       THEN ItemsLoop(src, inc_pos_col(inc_pos_col(p)), ")", <<>>)
       ELSE Err(inc_pos_col(p),
                unexpected_error(inc_pos_col(p), "'('", <<char_at(src, p.pos + 1)>>))
  ELSE Err(p, unexpected_error(p, "'''", <<char_at(src, p.pos)>>))

\* Parser::parse_list
parse_list(src, p) == ListStart(src, skip_whitespace(src, p))

\* the alternatives with parse_integer tried before parse_float
AlternativesIntegerFirst ==
  <<"sexpr", "integer", "float", "boolean", "nil", "ident", "string", "symbol", "list", "array",
    "comment">>

\* the alternatives of parse_expr, in the order of line 112
Alternatives ==
  <<"sexpr", "float", "integer", "boolean", "nil", "ident", "string", "symbol", "list", "array",
    "comment">>

\* self.$expfn()
Alternative(name, src, p) ==
  CASE name = "sexpr" -> parse_sexpr(src, p)
    [] name = "float" -> parse_float(src, p)
    [] name = "integer" -> parse_integer(src, p)
    [] name = "boolean" -> parse_boolean(src, p)
    [] name = "nil" -> parse_nil(src, p)
    [] name = "ident" -> parse_ident(src, p)
    [] name = "string" -> parse_string(src, p)
    [] name = "symbol" -> parse_symbol(src, p)
    [] name = "list" -> parse_list(src, p)
    [] name = "array" -> parse_array(src, p)
    [] name = "comment" -> parse_comment(src, p)

\* pos, line and column of the parser
Where(p) == [pos |-> p.pos, line |-> p.line, column |-> p.column]

\* the state alternative i starts from (parse_subexprs!): the first starts
\* where parse_expr was entered, the S rule with more alternatives to follow
\* (lines 19-21) restores pos, column and line, the S rule of the last
\* alternative (lines 34-44) restores nothing
AttemptStart(p, old, i) ==
  IF 1 < i /\ i < Len(Alternatives)
  THEN [p EXCEPT !.pos = old.pos, !.column = old.column, !.line = old.line]
  ELSE p

\* the comparison that replaces the largest error with not-smaller
LargerOrEqual(ldiff, largeval) == ldiff >= largeval

\* ldiff > largeval (lines 26 and 38)
Larger(ldiff, largeval) == ldiff > largeval

\* the event of a parse_expr call that returns r after the attempts in tries
Returned(r, old, tries) ==
  [r EXCEPT !.plog = Append(@, [entry |-> old, tries |-> tries, res |-> r.res, exit |-> Where(r)])]

RECURSIVE Attempt(_, _, _, _, _, _, _)

\* the match on the result r of alternative i, started from state from
Matched(src, r, old, i, largest, largeval, tries, from) ==
  IF r.panic THEN r
  ELSE IF r.res.t = "Ok"
  THEN Returned(r, old, Append(tries, [fn |-> Alternatives[i], start |-> from, exit |-> Where(r),
                                       res |-> r.res]))
  ELSE IF i = Len(Alternatives)
  THEN Returned(Err(r, IF Larger(r.pos - old.pos, largeval) THEN r.res.err ELSE largest), old,
                Append(tries, [fn |-> Alternatives[i], start |-> from, exit |-> Where(r),
                               res |-> r.res]))
  ELSE Attempt(src, r, old, i + 1,
               IF i = 1 \/ Larger(r.pos - old.pos, largeval) THEN r.res.err ELSE largest,
               IF i = 1 \/ Larger(r.pos - old.pos, largeval) THEN r.pos - old.pos ELSE largeval,
               Append(tries, [fn |-> Alternatives[i], start |-> from, exit |-> Where(r),
                              res |-> r.res]))

\* parse_subexprs!: alternative i of parse_expr
Attempt(src, p, old, i, largest, largeval, tries) ==
  Matched(src, Alternative(Alternatives[i], src, AttemptStart(p, old, i)), old, i, largest, largeval,
          tries, Where(AttemptStart(p, old, i)))

\* Parser::parse_expr
parse_expr(src, p) == Attempt(src, p, Where(p), 1, NoError, 0, <<>>)

(***************************************************************************)
(* Programs.  A program is the Root the parser hands to execute: ProgLen   *)
(* top-level forms, all drawn from one of the vocabularies below.          *)
(***************************************************************************)
Call(op, operands) == Sexpr(op, operands)
Def(name, value) == Sexpr("define", <<Ident(name), value>>)
Fn(params, body) == Sexpr("fn", <<Array(params)>> \o body)

\* the operand stack protocol: empty bodies, several body expressions,
\* `if` without an else branch, comments
StackForms ==
  << Def("f", Fn(<<>>, <<>>)),
     Call("f", <<>>),
     Def("g", Fn(<<>>, <<Integer(1), Integer(2)>>)),
     Def("r", Call("g", <<>>)),
     Call("+", <<Integer(1), Sexpr("if", <<Boolean(FALSE), Integer(2)>>)>>),
     Comment("c"),
     Call("print", <<Call("+", <<Integer(1), Float(20)>>), String("a"), Ident("r")>>),
     Call("len", <<Array(<<Integer(1), Integer(2)>>), Comment("c")>>) >>

\* parameter binding
BindForms ==
  << Def("v", Fn(<<Ident("xs...")>>, <<Call("len", <<Ident("xs")>>)>>)),
     Call("v", <<Integer(1), Integer(2), Integer(3), Integer(4)>>),
     Call("v", <<>>),
     Def("w", Fn(<<Ident("a"), Ident("xs...")>>, <<Ident("xs")>>)),
     Call("w", <<Integer(1), Integer(2), Integer(3)>>),
     Call("w", <<Integer(1), Integer(2)>>),
     Def("k", Fn(<<Ident("a"), Ident("b")>>, <<Call("+", <<Ident("a"), Ident("b")>>)>>)),
     Call("+", <<Integer(5), Call("k", <<Integer(1), Integer(2), Integer(3)>>)>>),
     Call("+", <<Integer(5), Call("k", <<Integer(1)>>)>>) >>

\* equality
EqualForms ==
  << Call("=", <<Integer(1), Integer(1)>>),
     Call("=", <<Integer(1), Integer(2), Integer(3)>>),
     Call("=", <<Integer(1), Integer(1), Integer(2)>>),
     Call("=", <<Integer(2), Integer(1), Integer(1)>>),
     Call("=", <<Array(<<Integer(1), String("a")>>), Array(<<Integer(1), String("a")>>), Ident("x")>>),
     Def("x", Array(<<Integer(1), String("a")>>)),
     Call("=", <<Fn(<<Ident("x")>>, <<Ident("x")>>), Fn(<<Ident("x")>>, <<Ident("x")>>)>>),
     Call("=", <<Fn(<<Ident("x")>>, <<Ident("x")>>), Fn(<<Ident("y")>>, <<Ident("y")>>)>>),
     Def("f", Fn(<<Ident("x")>>, <<Ident("x")>>)) >>

\* lexical scope: define and set seen through closures
ScopeForms ==
  << Def("x", Integer(1)),
     Def("x", Array(<<Integer(2), Symbol("s")>>)),
     Def("f", Fn(<<>>, <<Ident("x")>>)),
     Def("r", Call("f", <<>>)),
     Def("h", Fn(<<>>, <<Def("x", Float(15)), Ident("x")>>)),
     Call("h", <<>>),
     Ident("x"),
     Call("set", <<Ident("x"), Integer(-1), Nil>>),
     Def("p", Fn(<<Ident("x")>>, <<Call("f", <<>>)>>)),
     Call("p", <<String("q")>>) >>

\* if
IfForms ==
  << Sexpr("if", <<Boolean(TRUE), Def("a", Integer(1)), Def("b", Integer(2))>>),
     Sexpr("if", <<Boolean(FALSE), Def("a", Integer(1)), Def("b", Integer(2))>>),
     Sexpr("if", <<Integer(1), Def("a", Integer(1)), Def("b", Integer(2))>>),
     Sexpr("if", <<Call("=", <<Ident("a"), Integer(1)>>), Call("print", <<String("yes")>>),
                   Call("print", <<String("no")>>)>>),
     Def("c", Sexpr("if", <<Boolean(FALSE), Call("print", <<String("t")>>)>>)),
     Sexpr("if", <<Boolean(TRUE), Call("print", <<String("t")>>)>>),
     Def("a", Integer(3)),
     Call("+", <<Ident("a"), Ident("b")>>) >>

\* the other built-ins: get, set, len, type, import
BuiltinForms ==
  << Def("x", Array(<<Integer(10), Integer(20)>>)),
     Call("set", <<Ident("x"), Integer(3), Integer(5)>>),
     Call("set", <<Array(<<Integer(1)>>), Integer(0), Integer(5)>>),
     Def("y", Call("get", <<Ident("x"), Integer(-1)>>)),
     Call("type", <<Ident("x")>>),
     Call("import", <<String("./m")>>),
     Call("import", <<String("./none")>>),
     Def("z", Call("get", <<Array(<<Call("len", <<Ident("x")>>)>>), Integer(0)>>)) >>

\* define of a literal of every kind, and the lookup of the name
LiteralForms ==
  << Def("x", Integer(1)),
     Def("x", Float(15)),
     Def("x", String("a")),
     Def("x", Boolean(TRUE)),
     Def("x", Nil),
     Def("x", Symbol("s")),
     Def("x", Array(<<Integer(2), Ident("u")>>)),
     Def("x", List(<<Integer(1), Call("+", <<>>)>>)),
     Ident("x"),
     Def("f", Fn(<<>>, <<Ident("x")>>)),
     Call("f", <<>>) >>

\* closure frames: a parameter of the caller with the name of a global that
\* the callee reads, a define in a body, a call with too few arguments
FrameForms ==
  << Def("f", Fn(<<>>, <<Ident("FILE")>>)),
     Def("p", Fn(<<Ident("FILE")>>, <<Call("f", <<>>)>>)),
     Call("p", <<String("q")>>),
     Def("h", Fn(<<Ident("a")>>, <<Def("b", Ident("a")), Ident("b")>>)),
     Call("h", <<Integer(1)>>),
     Ident("b"),
     Call("p", <<>>) >>

\* set: growth, negative indices, an index below -length, a binding held by
\* an ancestor frame, a binding that shadows a global one
SetForms ==
  << Def("x", Array(<<Integer(10), Integer(20)>>)),
     Call("set", <<Ident("x"), Integer(3), Integer(5)>>),
     Call("set", <<Ident("x"), Integer(-2), Nil>>),
     Call("set", <<Ident("x"), Integer(-3), Nil>>),
     Def("s", Fn(<<Ident("a")>>, <<Call("set", <<Ident("x"), Integer(0), Ident("a")>>)>>)),
     Call("s", <<Integer(7)>>),
     Def("t", Fn(<<Ident("x")>>, <<Call("set", <<Ident("x"), Integer(-1), Nil>>)>>)),
     Call("t", <<Array(<<Integer(1), Integer(2)>>)>>) >>

Vocabularies ==
  <<StackForms, BindForms, EqualForms, ScopeForms, IfForms, BuiltinForms, LiteralForms,
    FrameForms, SetForms>>

(***************************************************************************)
(* The interpreter as a state machine                                      *)
(***************************************************************************)
\* Ast::optimize of every variant but Root: Some(node)
optimize(node) == <<node>>

RECURSIVE RootOptimize(_, _)
\* RootAst::optimize: filter_map over the children, from child i on
RootOptimize(asts, i) ==
  IF i > Len(asts) THEN <<>> ELSE optimize(asts[i]) \o RootOptimize(asts, i + 1)

\* Interpreter::new, set_mode, set_file, load_code, and the parse of execute
Init ==
  /\ mode \in {"Debug", "Release"}
  /\ \E t \in DOMAIN Vocabularies :
       \E f \in [1..ProgLen -> DOMAIN Vocabularies[t]] :
         root = [i \in 1..ProgLen |-> Vocabularies[t][f[i]]]
  /\ pc = 0
  /\ heap = <<[NewEnvironment(0) EXCEPT
                  !.values = Insert(populate_default(@), "FILE", Value(String("main.irl")))]>>
  /\ stack = <<>>
  /\ status = "running"
  /\ out = <<>>
  /\ log = <<>>
  /\ source = <<>>
  /\ pos = 0
  /\ line = 1
  /\ column = 1
  /\ parsed = <<>>
  /\ pstatus = "parsed"
  /\ plog = <<>>

\* execute, lines 79-81: the optimisation pass, skipped in Debug mode
Optimize ==
  /\ status = "running"
  /\ pc = 0
  /\ root' = IF mode # "Debug" THEN RootOptimize(root, 1) ELSE root
  /\ pc' = 1
  /\ UNCHANGED <<mode, heap, stack, status, out, log>>
  /\ UNCHANGED pvars

\* the state execute_node starts from
Enter(order) ==
  [heap |-> heap, stack |-> stack, out |-> out, log |-> log, ok |-> TRUE, order |-> order,
   ret |-> Nil, g |-> NoGhost]

\* execute, lines 83-84: execute_node has left r; the stack is cleared
Clear(r) ==
  /\ heap' = r.heap
  /\ out' = r.out
  /\ log' = r.log
  /\ IF r.ok
     THEN /\ stack' = <<>>
          /\ pc' = pc + 1
          /\ status' = status
     ELSE /\ stack' = r.stack
          /\ pc' = pc
          /\ status' = "failed"

\* execute, lines 82-85: one iteration of the loop over root.asts
ExecuteForm ==
  /\ status = "running"
  /\ pc >= 1
  /\ pc <= Len(root)
  /\ \E order \in {"F", "D"} : Clear(execute_node(Enter(order), 1, root[pc], MaxDepth))
  /\ UNCHANGED <<mode, root>>
  /\ UNCHANGED pvars

\* execute, line 86: the loop is over, the exit status is returned
Finish ==
  /\ status = "running"
  /\ pc > Len(root)
  /\ status' = "done"
  /\ UNCHANGED <<mode, root, pc, heap, stack, out, log>>
  /\ UNCHANGED pvars

Next == Optimize \/ ExecuteForm \/ Finish

Spec == Init /\ [][Next]_vars

(***************************************************************************)
(* The parser as a state machine: Parser::parse, called by execute (line   *)
(* 78) on the code that load_code stored                                   *)
(***************************************************************************)
\* the pieces the source texts are made of: the characters of Alphabet, the
\* words that parse_boolean and parse_nil compare with, and a digit with a sign
Lexemes ==
  {<<c>> : c \in Alphabet}
    \cup {<<"t", "r", "u", "e">>, <<"f", "a", "l", "s", "e">>, <<"n", "i", "l">>, <<"-", "1">>}

RECURSIVE Flatten(_)
\* the text made of the lexemes of w, in order
Flatten(w) == IF w = <<>> THEN <<>> ELSE Head(w) \o Flatten(Tail(w))

\* the source texts: every text made of at most MaxSrcLen lexemes
Sources == {Flatten(w) : w \in UNION {[1..n -> Lexemes] : n \in 0..MaxSrcLen}}

\* Interpreter::new, load_code: the parser holds the source, nothing is parsed
ParseInit ==
  /\ mode = "Release"
  /\ root = <<>>
  /\ pc = 0
  /\ heap = <<[NewEnvironment(0) EXCEPT !.values = populate_default(@)]>>
  /\ stack = <<>>
  /\ status = "running"
  /\ out = <<>>
  /\ log = <<>>
  /\ source \in Sources
  /\ pos = 0
  /\ line = 1
  /\ column = 1
  /\ parsed = <<>>
  /\ pstatus = "loaded"
  /\ plog = <<>>

\* the state the parse functions start from
Parser == [pos |-> pos, line |-> line, column |-> column, panic |-> FALSE, plog |-> plog,
           res |-> NoRes]

\* the parser's fields after a parse function left r
Stored(r) ==
  /\ pos' = r.pos
  /\ line' = r.line
  /\ column' = r.column
  /\ plog' = r.plog

\* parse, lines 95-96: the skip_whitespace before the loop
ParseStart ==
  /\ pstatus = "loaded"
  /\ \E r \in {skip_whitespace(source, Parser)} : Stored(r)
  /\ pstatus' = "parsing"
  /\ UNCHANGED <<source, parsed>>
  /\ UNCHANGED ivars

\* the loop body that pushes the expression and leaves the parser where it was
PushedInPlace(r) ==
  IF r.panic
  THEN Stored(r) /\ pstatus' = "index out of bounds" /\ parsed' = parsed
  ELSE IF r.res.t = "Err"
  THEN Stored(r) /\ pstatus' = "failed" /\ parsed' = parsed
  ELSE Stored([r EXCEPT !.pos = pos, !.line = line, !.column = column])
       /\ pstatus' = "parsing" /\ parsed' = Append(parsed, r.res.ast)

\* lines 98-106, r the result of parse_expr: the expression is pushed and the
\* whitespace after it skipped, or the task fails
Pushed(r) ==
  IF r.panic
  THEN Stored(r) /\ pstatus' = "index out of bounds" /\ parsed' = parsed
  ELSE IF r.res.t = "Err"
  THEN Stored(r) /\ pstatus' = "failed" /\ parsed' = parsed
  ELSE Stored(skip_whitespace(source, r)) /\ pstatus' = "parsing" /\ parsed' = Append(parsed, r.res.ast)

\* parse, lines 97-107: one iteration of the while loop
ParseForm ==
  /\ pstatus = "parsing"
  /\ pos < Len(source)
  /\ \E r \in {parse_expr(source, Parser)} : Pushed(r)
  /\ UNCHANGED source
  /\ UNCHANGED ivars

\* parse, line 108, and execute, line 78: the Root is returned
ParseEnd ==
  /\ pstatus = "parsing"
  /\ pos >= Len(source)
  /\ pstatus' = "parsed"
  /\ root' = parsed
  /\ UNCHANGED <<mode, pc, heap, stack, status, out, log>>
  /\ UNCHANGED <<source, pos, line, column, parsed, plog>>

ParseNext == ParseStart \/ ParseForm \/ ParseEnd

ParseSpec == ParseInit /\ [][ParseNext]_vars

\* parse has returned the Root or the task has failed
ParseOver == pstatus \in {"parsed", "failed", "index out of bounds"}

\* a step of parse seen through pstatus and pos only: the call has not returned
\* and the two fields take some value
Running ==
  /\ ~ParseOver
  /\ pstatus' \in {"loaded", "parsing", "parsed", "failed", "index out of bounds"}
  /\ pos' \in 0..Len(source)

\* parse runs its loop without waiting for anything: as long as the call has
\* not returned or failed, its next step is eventually taken.  Every step of
\* ParseNext changes pstatus or pos, so this is weak fairness of ParseNext,
\* stated over the two fields that every step changes
ParseLive == ParseSpec /\ WF_<<pstatus, pos>>(Running)

(***************************************************************************)
(* Properties.  log holds one event per execute_node call that returned,   *)
(* in the order of the returns; the calls made during the call of event i  *)
(* are the events after log[i].start and before i.                         *)
(***************************************************************************)
IsBuiltinCall(e, name) == e.node.k = "Sexpr" /\ e.g.callee = "builtin" /\ e.g.name = name
IsClosureCall(e) == e.node.k = "Sexpr" /\ e.g.callee = "closure"

\* m is a call made directly by the call of event i
IsChild(i, m) ==
  /\ log[i].start < m
  /\ m < i
  /\ \A m2 \in (m + 1)..(i - 1) : ~(log[m2].start < m)

\* the calls made directly by the call of event i, in order
ChildSeq(i) == SelectSeq([m \in 1..Len(log) |-> m], LAMBDA m : IsChild(i, m))

\* structural equality of two AST values that hold no Code
SameAst(a, b) == a.k = b.k /\ a = b

RECURSIVE ChainOf(_, _)
\* the frames of the chain that starts at env
ChainOf(h, env) == {env} \cup (IF h[env].parent # 0 THEN ChainOf(h, h[env].parent) ELSE {})

\* the nearest frame of the chain of env that binds x (0: none)
Holder(h, env, x) ==
  LET holders == {f \in ChainOf(h, env) : x \in DOMAIN h[f].values}
  IN IF holders = {} THEN 0
     ELSE CHOOSE f \in holders : \A f2 \in holders : f2 \in ChainOf(h, f)

\* what a lookup of x from env must yield
View(h, env, x) == IF Holder(h, env, x) = 0 THEN None ELSE h[Holder(h, env, x)].values[x]

\* the environments captured by the Code values bound in some frame
ClosureEnvs(h) ==
  {h[e].values[n].ast.env :
     <<e, n>> \in {<<e, n>> \in UNION {{<<e2, n2>> : n2 \in DOMAIN h[e2].values} : e2 \in DOMAIN h} :
                     h[e].values[n].t = "Value" /\ h[e].values[n].ast.k = "Code"}}

BoundNames(h) == UNION {DOMAIN h[e].values : e \in DOMAIN h}

\* C1: every execute_node call that returns leaves the stack exactly one
\* element longer than it found it, the elements below unchanged
C1_StackGrowsByOne ==
  \A i \in DOMAIN log :
    /\ Len(log[i].post) = Len(log[i].pre) + 1
    /\ SubSeq(log[i].post, 1, Len(log[i].pre)) = log[i].pre

\* C2: the result of applying a closure with at least one body expression is
\* the value the last body expression produced
C2_CallYieldsLastBodyValue ==
  \A i \in DOMAIN log :
    LET cs == ChildSeq(i)
        last == log[cs[Len(cs)]]
    IN (IsClosureCall(log[i]) /\ Len(cs) > log[i].g.ops /\ Len(last.post) = Len(last.pre) + 1)
       => /\ Len(log[i].post) > 0
          /\ Top(log[i].post) = Top(last.post)

\* C3: a variadic last parameter after m plain ones, called with n >= m
\* arguments, is bound to the array of the n - m remaining arguments in call
\* order
C3_VariadicCollectsRest ==
  \A i \in DOMAIN log :
    LET g == log[i].g
        m == Len(g.params) - 1
    IN (/\ IsClosureCall(log[i])
        /\ Len(g.params) >= 1
        /\ \A j \in 1..Len(g.params) : g.params[j].k = "Ident"
        /\ ends_with_dots(g.params[m + 1].v)
        /\ \A j \in 1..m : ~ends_with_dots(g.params[j].v)
        /\ g.ops >= m
        /\ Len(g.args) = g.ops)
       => /\ Variadic[g.params[m + 1].v] \in DOMAIN g.bound
          /\ g.bound[Variadic[g.params[m + 1].v]] = Value(Array(SubSeq(g.args, m + 1, g.ops)))

LiteralKinds == {"Integer", "Float", "String", "Boolean", "Nil", "Symbol", "Array", "List"}

\* C4: (= a1 ... an) with n >= 2 evaluates to Boolean(true) if every operand
\* value equals the first and to Boolean(false) otherwise
C4_EqualIffAllEqualFirst ==
  \A i \in DOMAIN log :
    LET g == log[i].g
    IN (/\ IsBuiltinCall(log[i], "=")
        /\ g.ops >= 2
        /\ Len(g.args) = g.ops
        /\ \A j \in 1..g.ops : g.args[j].k \in LiteralKinds)
       => /\ Len(log[i].post) > 0
          /\ Top(log[i].post) = Boolean(\A j \in 1..g.ops : SameAst(g.args[j], g.args[1]))

\* the events logged by the step
NewEvents == (Len(log) + 1)..Len(log')

\* C5 as stated: once a closure exists, a define that re-binds a name in a
\* frame of the closure's chain does not change what a lookup of the name
\* from the closure's environment yields
C5_DefineInvisibleToClosure ==
  [][\A i \in NewEvents :
       (IsBuiltinCall(log'[i], "define") /\ log'[i].g.args[1].k = "Ident")
       => \A e \in ClosureEnvs(heap) :
            (log'[i].env \in ChainOf(heap, e) /\ View(heap, e, log'[i].g.args[1].v) # None)
            => View(heap', e, log'[i].g.args[1].v) = View(heap, e, log'[i].g.args[1].v)]_vars

\* C5 amended: what a closure's environment yields for a name changes only by
\* a define of the name or an import executed in a frame of the closure's
\* chain, or by a set that replaces the name's binding in such a frame
C5_ViewChangesOnlyByWriteOnChain ==
  [][status' # "failed"
     => \A e \in ClosureEnvs(heap) : \A x \in BoundNames(heap') :
          View(heap', e, x) # View(heap, e, x)
          => \E i \in NewEvents :
               \/ /\ IsBuiltinCall(log'[i], "define")
                  /\ log'[i].g.args[1] = Ident(x)
                  /\ log'[i].env \in ChainOf(heap', e)
               \/ /\ IsBuiltinCall(log'[i], "set")
                  /\ log'[i].g.args[1] = Ident(x)
                  /\ Holder(log'[i].heap, log'[i].env, x) \in ChainOf(heap', e)
               \/ /\ IsBuiltinCall(log'[i], "import")
                  /\ log'[i].env \in ChainOf(heap', e)]_vars

\* a closure was created and, later, a define ran in a frame outside the
\* chain of the closure's environment, for a name the chain binds
C5_Witness ==
  \E i, j \in DOMAIN log :
    /\ i < j
    /\ IsBuiltinCall(log[i], "fn")
    /\ IsBuiltinCall(log[j], "define")
    /\ log[j].g.args[1].k = "Ident"
    /\ log[j].env \notin ChainOf(heap, log[i].env)
    /\ Holder(heap, log[i].env, log[j].g.args[1].v) # 0

\* C6: a built-in that returns has removed exactly the top ops values of the
\* stack
C6_BuiltinConsumesOperands ==
  \A i \in DOMAIN log :
    LET g == log[i].g
    IN g.callee = "builtin"
       => /\ Len(g.before) >= g.ops
          /\ g.after = SubSeq(g.before, 1, Len(g.before) - g.ops)

\* C7: a Comment pushes nothing and is not counted as an operand
C7_CommentsSkipped ==
  \A i \in DOMAIN log :
    /\ log[i].node.k = "Comment" => log[i].post = log[i].pre
    /\ (log[i].node.k = "Sexpr" /\ log[i].g.callee # "none")
       => log[i].g.ops = Cardinality({j \in DOMAIN log[i].node.operands :
                                        log[i].node.operands[j].k # "Comment"})

\* (= (fn ..) (fn ..)): = applied to the results of two fn evaluations
IsFnPair(e) ==
  /\ IsBuiltinCall(e, "=")
  /\ Len(e.node.operands) = 2
  /\ \A j \in 1..2 : e.node.operands[j].k = "Sexpr" /\ e.node.operands[j].op = "fn"
  /\ Len(e.g.args) = 2
  /\ \A j \in 1..2 : e.g.args[j].k = "Code"

IsLiteralDefine(e) ==
  /\ IsBuiltinCall(e, "define")
  /\ Len(e.node.operands) = 2
  /\ e.node.operands[1].k = "Ident"
  /\ e.node.operands[2].k \in LiteralKinds

IsWrite(e) == \E b \in {"define", "set", "import"} : IsBuiltinCall(e, b)

\* the lookup of event j reads the binding the define of event i made
ReadsDefine(i, j) ==
  /\ i < j
  /\ IsLiteralDefine(log[i])
  /\ log[j].node.k = "Ident"
  /\ log[j].node.v = log[i].node.operands[1].v
  /\ Holder(log[j].heap, log[j].env, log[j].node.v) = log[i].env
  /\ \A m \in (i + 1)..(j - 1) : ~IsWrite(log[m])

\* C9: after (define x v) with a literal v in a frame, the identifier x
\* evaluated in that frame, or in a frame whose chain reaches it without
\* shadowing, yields a value structurally equal to v
C9_DefineThenLookup ==
  \A i, j \in DOMAIN log :
    ReadsDefine(i, j)
    => /\ Len(log[j].post) > 0
       /\ SameAst(Top(log[j].post), log[i].node.operands[2])

\* the name was looked up from a frame other than the one of the define
C9_Witness ==
  \E i, j \in DOMAIN log : ReadsDefine(i, j) /\ log[j].env # log[i].env

\* the nodes ifexpr's s-expression evaluates when the condition value is c:
\* the condition, then the selected branch if there is one
Selected(operands, c) ==
  <<operands[1]>> \o (IF c THEN <<operands[2]>>
                      ELSE IF Len(operands) = 3 THEN <<operands[3]>> ELSE <<>>)

Evaluated(i) == [m \in 1..Len(ChildSeq(i)) |-> log[ChildSeq(i)[m]].node]

\* C10 as stated: an if that returns had a Boolean condition and evaluated
\* exactly one branch, the then branch on true and the else branch on false
C10_ExactlyOneBranch ==
  \A i \in DOMAIN log :
    IsBuiltinCall(log[i], "if")
    => /\ log[i].g.args[1].k = "Boolean"
       /\ Len(Evaluated(i)) = 2
       /\ Evaluated(i) = Selected(log[i].node.operands, log[i].g.args[1].v)

\* C10 amended: an if that returns had a Boolean condition and evaluated the
\* condition and then only the selected branch: the then branch on true, the
\* else branch on false when there is one, and no branch on false without an
\* else branch
C10_OnlySelectedBranch ==
  \A i \in DOMAIN log :
    IsBuiltinCall(log[i], "if")
    => /\ log[i].g.args[1].k = "Boolean"
       /\ Evaluated(i) = Selected(log[i].node.operands, log[i].g.args[1].v)

\* an if with both branches whose condition was false has returned
C10_Witness ==
  \E i \in DOMAIN log :
    /\ IsBuiltinCall(log[i], "if")
    /\ Len(log[i].node.operands) = 3
    /\ log[i].g.args[1] = Boolean(FALSE)

\* the operands the dispatch evaluates before the operator runs, by operator
\* name
SelectedOperands(sast) ==
  IF sast.op = "fn" THEN <<>>
  ELSE IF sast.op = "if"
  THEN (IF Len(sast.operands) > 0 THEN <<sast.operands[1]>> ELSE <<>>)
  ELSE IF sast.op \in {"define", "set"} THEN SubSeq(sast.operands, 2, Len(sast.operands))
  ELSE sast.operands

\* the calls made directly by the call of event i before its operator was
\* invoked, in order
ChildrenBefore(i) == SelectSeq(ChildSeq(i), LAMBDA m : m <= log[i].g.at)

\* the nodes evaluated by the call of event i before its operator was invoked
EvaluatedBefore(i) == [m \in 1..Len(ChildrenBefore(i)) |-> log[ChildrenBefore(i)[m]].node]

\* C11: the evaluations an s-expression makes before its operator is resolved
\* and invoked are those of the operands its operator name selects (none for
\* fn, the first for if, all but the first for define and set, all otherwise),
\* left to right, each exactly once
C11_OperandsSelectedByName ==
  \A i \in DOMAIN log :
    log[i].node.k = "Sexpr" => EvaluatedBefore(i) = SelectedOperands(log[i].node)

\* a define whose operand evaluated to an s-expression has returned: the
\* dispatch evaluated the second operand, the built-in evaluated its value
C11_Witness ==
  \E i \in DOMAIN log :
    /\ IsBuiltinCall(log[i], "define")
    /\ Len(log[i].node.operands) = 2
    /\ Len(ChildrenBefore(i)) = 1
    /\ Len(ChildSeq(i)) = 2

\* every evaluation the call of event i made before its operator was invoked
\* pushed exactly one value and left the values below it alone
OperandsPushedOne(i) ==
  \A m \in 1..Len(ChildrenBefore(i)) :
    LET e == log[ChildrenBefore(i)[m]]
    IN /\ Len(e.post) = Len(e.pre) + 1
       /\ SubSeq(e.post, 1, Len(e.pre)) = e.pre

\* the parameters are identifiers with distinct names, none variadic
PlainParams(params) ==
  /\ \A j \in 1..Len(params) : params[j].k = "Ident" /\ ~ends_with_dots(params[j].v)
  /\ \A j, j2 \in 1..Len(params) : params[j].v = params[j2].v => j = j2

\* a closure with p plain parameters was called with n >= p arguments, each
\* of which produced one value
IsPlainCall(i) ==
  /\ IsClosureCall(log[i])
  /\ PlainParams(log[i].g.params)
  /\ log[i].g.ops >= Len(log[i].g.params)
  /\ Len(ChildrenBefore(i)) = log[i].g.ops
  /\ OperandsPushedOne(i)

\* C12: a closure with p plain parameters called with n >= p arguments binds
\* parameter j to the value of argument j for j = 1..p, discards the last
\* n - p argument values, and leaves none of the n argument values on the
\* stack after the binding
C12_PlainParamsBoundInOrder ==
  \A i \in DOMAIN log :
    LET g == log[i].g
    IN IsPlainCall(i)
       => /\ DOMAIN g.bound = {g.params[j].v : j \in 1..Len(g.params)}
          /\ \A j \in 1..Len(g.params) :
               g.bound[g.params[j].v] = Value(Top(log[ChildrenBefore(i)[j]].post))
          /\ Len(g.before) >= g.ops
          /\ g.after = SubSeq(g.before, 1, Len(g.before) - g.ops)

\* a closure with two plain parameters was called with more arguments than
\* parameters, above a value that was already on the stack
C12_Witness ==
  \E i \in DOMAIN log :
    /\ IsPlainCall(i)
    /\ Len(log[i].g.params) = 2
    /\ log[i].g.ops > 2
    /\ Len(log[i].g.after) > 0

\* the calls made directly by the call of event i after its operator was
\* invoked, in order: for a closure call, the evaluations of its body
ChildrenAfter(i) == SelectSeq(ChildSeq(i), LAMBDA m : m > log[i].g.at)

\* C13: a closure call runs its body in a fresh frame whose parent is the
\* environment the closure captured and whose bindings are the parameters;
\* the binding leaves every other frame unchanged; an identifier resolves to
\* the nearest binding on the chain of the frame it is evaluated in; a define
\* inserts into the frame it runs in and changes no other frame
C13_LexicalScope ==
  \A i \in DOMAIN log :
    LET e == log[i]
        g == log[i].g
        body == ChildrenAfter(i)
    IN /\ IsClosureCall(e)
          => /\ g.frame = Len(g.heap0) + 1
             /\ e.heap[g.frame].parent = g.cenv
             /\ \A m \in 1..Len(body) : log[body[m]].env = g.frame
             /\ (Len(body) > 0 /\ log[body[1]].node.k # "Sexpr")
                => log[body[1]].heap = Append(g.heap0, [parent |-> g.cenv, values |-> g.bound])
       /\ e.node.k = "Ident"
          => /\ Holder(e.heap, e.env, e.node.v) # 0
             /\ Len(e.post) > 0
             /\ Value(Top(e.post)) = View(e.heap, e.env, e.node.v)
       /\ (IsBuiltinCall(e, "define") /\ Len(ChildrenAfter(i)) = 0)
          => e.heap = [g.heap0 EXCEPT ![e.env].values = Insert(@, g.args[1].v, Value(g.args[2]))]

\* an identifier was evaluated in the body of a closure called from the body
\* of another closure: the caller's frame binds the name, is not on the chain
\* of the callee's frame, and the identifier did not resolve to its binding
C13_Witness ==
  \E c, i, j \in DOMAIN log :
    /\ IsClosureCall(log[c])
    /\ IsClosureCall(log[i])
    /\ IsChild(c, i)
    /\ IsChild(i, j)
    /\ log[i].env = log[c].g.frame
    /\ log[j].env = log[i].g.frame
    /\ log[j].node.k = "Ident"
    /\ log[j].node.v \in DOMAIN log[c].g.bound
    /\ log[c].g.frame \notin ChainOf(log[j].heap, log[j].env)
    /\ Value(Top(log[j].post)) # log[c].g.bound[log[j].node.v]

\* the number of plain (non-variadic) parameters
PlainCount(params) ==
  Cardinality({j \in 1..Len(params) : params[j].k = "Ident" /\ ~ends_with_dots(params[j].v)})

SpecialForms == {"fn", "if", "define", "set"}

\* a node whose evaluation pushes the node itself
IsLiteralNode(node) == node.k \notin {"Sexpr", "Ident"}

\* node calls, with literal arguments, a closure that has more plain
\* parameters than the call has arguments
ShortCall(node, h) ==
  /\ node.k = "Sexpr"
  /\ node.op \notin SpecialForms
  /\ \A j \in 1..Len(node.operands) : IsLiteralNode(node.operands[j])
  /\ LET thing == find(h, 1, node.op)
     IN /\ thing.t = "Value"
        /\ thing.ast.k = "Code"
        /\ \A j \in 1..Len(thing.ast.params) : thing.ast.params[j].k = "Ident"
        /\ Len(node.operands) < PlainCount(thing.ast.params)

\* node has such a call among its operands, after literal operands only: the
\* call is made with the values of those operands below its arguments
NestedShortCall(node, h) ==
  /\ node.k = "Sexpr"
  /\ node.op \notin SpecialForms
  /\ \E j \in 2..Len(node.operands) :
       /\ ShortCall(node.operands[j], h)
       /\ \A m \in 1..(j - 1) : IsLiteralNode(node.operands[m])

\* C14: a closure call with fewer arguments than plain parameters never
\* returns, and the step that makes such a call, on an empty stack or above
\* other values, fails without creating a frame, without evaluating anything
\* but the literal operands and without changing a frame or the output
C14_ShortCallFails ==
  /\ [](\A i \in DOMAIN log :
          IsClosureCall(log[i]) => log[i].g.ops >= PlainCount(log[i].g.params))
  /\ [][(/\ status = "running"
          /\ pc \in 1..Len(root)
          /\ (ShortCall(root[pc], heap) \/ NestedShortCall(root[pc], heap)))
        => /\ status' = "failed"
           /\ heap' = heap
           /\ out' = out
           /\ \A m \in NewEvents : IsLiteralNode(log'[m].node) /\ log'[m].env = 1]_vars

\* a call with fewer arguments than parameters, made above a value already on
\* the stack, has failed
C14_Witness ==
  /\ status = "failed"
  /\ pc \in 1..Len(root)
  /\ NestedShortCall(root[pc], heap)

\* the array (set name i v) must leave: element i, or length + i when i is
\* negative, is v, the elements below the old length are kept, the slots
\* between are Nil
ArrayAfterSet(items, i, v) ==
  LET j == IF i < 0 THEN Len(items) + i ELSE i
      n == IF j + 1 > Len(items) THEN j + 1 ELSE Len(items)
  IN [m \in 1..n |-> IF m = j + 1 THEN v ELSE IF m <= Len(items) THEN items[m] ELSE Nil]

\* event e is a set of a name that returned
IsNameSet(e) ==
  /\ IsBuiltinCall(e, "set")
  /\ Len(e.g.args) = 3
  /\ e.g.args[1].k = "Ident"

\* the top-level form (set x i v) with literals i and v, x bound to an array
\* and i below minus its length
SetBelowLength(node, h) ==
  /\ node.k = "Sexpr"
  /\ node.op = "set"
  /\ Len(node.operands) = 3
  /\ node.operands[1].k = "Ident"
  /\ node.operands[2].k = "Integer"
  /\ IsLiteralNode(node.operands[3])
  /\ LET val == View(h, 1, node.operands[1].v)
     IN /\ val.t = "Value"
        /\ val.ast.k = "Array"
        /\ node.operands[2].v < -Len(val.ast.items)

\* C15: a (set name i v) that returns had name bound to an array of length L
\* and i >= -L; it replaced the binding in the nearest frame of the chain
\* that holds the name by the array with v at i (L + i when i < 0), Nil in the
\* new slots below it and the other elements kept, changed nothing else, and
\* evaluated to Nil; with i < -L the step fails and leaves every frame
\* unchanged
C15_SetReplacesNearestBinding ==
  /\ [](\A i \in DOMAIN log :
          LET e == log[i]
              x == e.g.args[1].v
              F == Holder(e.g.heap0, e.env, x)
              old == e.g.heap0[F].values[x]
          IN IsNameSet(e)
             => /\ F # 0
                /\ old.t = "Value"
                /\ old.ast.k = "Array"
                /\ e.g.args[2].k = "Integer"
                /\ e.g.args[2].v >= -Len(old.ast.items)
                /\ e.heap = [e.g.heap0 EXCEPT ![F].values =
                               Insert(@, x, Value(Array(ArrayAfterSet(old.ast.items, e.g.args[2].v,
                                                                      e.g.args[3]))))]
                /\ Len(e.post) > 0
                /\ Top(e.post) = Nil)
  /\ [][(/\ status = "running"
          /\ pc \in 1..Len(root)
          /\ SetBelowLength(root[pc], heap))
        => (status' = "failed" /\ heap' = heap)]_vars

\* a set that ran in the frame of a closure call replaced a binding held by
\* an ancestor frame
C15_Witness ==
  \E i \in DOMAIN log :
    /\ IsNameSet(log[i])
    /\ Holder(log[i].g.heap0, log[i].env, log[i].g.args[1].v) # log[i].env
    /\ log[i].heap # log[i].g.heap0

\* C16: (set A i v) with an Array literal A as first operand evaluates to Nil
\* and changes no frame
C16_SetOnLiteralYieldsNil ==
  \A i \in DOMAIN log :
    (/\ IsBuiltinCall(log[i], "set")
     /\ Len(log[i].node.operands) = 3
     /\ log[i].node.operands[1].k = "Array")
    => /\ log[i].heap = log[i].g.heap0
       /\ Len(log[i].post) > 0
       /\ Top(log[i].post) = Nil

(***************************************************************************)
(* Properties of the parser.  plog holds one event per parse_expr call     *)
(* that returned: the position on entry, the alternatives tried in order   *)
(* (each with the position it started from, the position it left and its   *)
(* result), the result returned and the position on exit.                  *)
(***************************************************************************)
\* s is a non-empty sequence of decimal digits
IsDigits(s) == Len(s) > 0 /\ \A i \in DOMAIN s : is_digit(s[i])

RECURSIVE DigitsValue(_)
\* the number a sequence of digits denotes
DigitsValue(s) ==
  IF s = <<>> THEN 0 ELSE DigitsValue(SubSeq(s, 1, Len(s) - 1)) * 10 + DigitValue[s[Len(s)]]

\* the positions of a '.' that splits src into digits, '.', digits
DecimalPoints(src) ==
  {k \in DOMAIN src : /\ src[k] = "."
                       /\ IsDigits(SubSeq(src, 1, k - 1))
                       /\ IsDigits(SubSeq(src, k + 1, Len(src)))}

\* the value of digits '.' digits with the point at k, in tenths
DecimalValue(src, k) == DigitsValue(SubSeq(src, 1, k - 1)) * 10 + DigitValue[src[k + 1]]

\* C17: a source made of digits, '.', digits parses to a Root with exactly
\* one child, the Float of that value, never to an Integer followed by other
\* nodes and never to a failure; a source made of digits only parses to
\* exactly one Integer
C17_DecimalParsesToOneFloat ==
  /\ \A k \in DecimalPoints(source) :
       /\ pstatus \notin {"failed", "index out of bounds"}
       /\ parsed \in {<<>>, <<Float(DecimalValue(source, k))>>}
       /\ (parsed # <<>>) => (pos = Len(source))
       /\ (pstatus = "parsed") => (root = <<Float(DecimalValue(source, k))>>)
  /\ IsDigits(source) =>
       /\ pstatus \notin {"failed", "index out of bounds"}
       /\ parsed \in {<<>>, <<Integer(DigitsValue(source))>>}
       /\ (parsed # <<>>) => (pos = Len(source))
       /\ (pstatus = "parsed") => (root = <<Integer(DigitsValue(source))>>)

\* the source 1.5 has been parsed to a Root whose only child is Float 1.5
C17_Witness ==
  /\ source = <<"1", ".", "5">>
  /\ pstatus = "parsed"
  /\ root = <<Float(15)>>

\* C18: in every parse_expr call each alternative tried starts with pos, line
\* and column equal to the values they had on entry to parse_expr
C18_AttemptsStartAtEntry ==
  \A i \in DOMAIN plog :
    \A j \in DOMAIN plog[i].tries : plog[i].tries[j].start = plog[i].entry

\* the parse_expr calls in which every alternative failed
AllFailed == {i \in DOMAIN plog : plog[i].res.t = "Err"}

\* self.pos - oldpos when try j of event e failed
Consumed(e, j) == e.tries[j].exit.pos - e.entry.pos

\* the tries of event e at whose failure the position was furthest from entry
Furthest(e) ==
  {j \in DOMAIN e.tries : \A m \in DOMAIN e.tries : Consumed(e, m) <= Consumed(e, j)}

\* the earliest of the tries in S
Earliest(S) == CHOOSE j \in S : \A m \in S : j <= m

\* C19 as stated: when every alternative of parse_expr fails, the error
\* returned is the error of an alternative that had consumed the most
\* characters, and when no alternative consumed a character it is the error of
\* the last alternative tried, comment
C19_LastErrorWhenNoneConsumed ==
  \A i \in AllFailed :
    /\ \E j \in Furthest(plog[i]) : plog[i].res.err = plog[i].tries[j].res.err
    /\ (\A j \in DOMAIN plog[i].tries : Consumed(plog[i], j) = 0)
         => plog[i].res.err = plog[i].tries[Len(plog[i].tries)].res.err

\* C19, amended: when every alternative of parse_expr fails, all eleven have
\* been tried and the error returned is the error of the earliest alternative
\* among those at whose failure the position was furthest from the entry
\* position; when no alternative consumed a character it is the error of the
\* first alternative, sexpr
C19_EarliestFurthestError ==
  \A i \in AllFailed :
    /\ Len(plog[i].tries) = Len(Alternatives)
    /\ \A j \in DOMAIN plog[i].tries : plog[i].tries[j].res.t = "Err"
    /\ plog[i].res.err = plog[i].tries[Earliest(Furthest(plog[i]))].res.err
    /\ (\A j \in DOMAIN plog[i].tries : Consumed(plog[i], j) = 0)
         => plog[i].res.err = plog[i].tries[1].res.err

\* every alternative of a parse_expr call failed without consuming a
\* character, and the error returned is that of sexpr and not that of comment
C19_Witness ==
  \E i \in AllFailed :
    /\ \A j \in DOMAIN plog[i].tries : Consumed(plog[i], j) = 0
    /\ plog[i].res.err = plog[i].tries[1].res.err
    /\ plog[i].res.err # plog[i].tries[Len(plog[i].tries)].res.err

\* C20: the parser never reads the source at an index greater than or equal
\* to its length; a premature end of input is a ParseError, also when the last
\* character of the source is '-'
C20_NoReadPastTheEnd == pstatus # "index out of bounds"

\* C21: parse terminates on every source: every parse_expr call that succeeded
\* left pos strictly greater than on entry, pos never exceeds the length of
\* the source, every iteration of the top-level loop that pushes an expression
\* advances pos, and parse eventually returns the Root or fails
C21_ParseTerminates ==
  /\ [](/\ pos <= Len(source)
        /\ \A i \in DOMAIN plog :
             /\ plog[i].exit.pos <= Len(source)
             /\ \A j \in DOMAIN plog[i].tries : plog[i].tries[j].exit.pos <= Len(source)
             /\ (plog[i].res.t = "Ok") => (plog[i].exit.pos > plog[i].entry.pos))
  /\ [][(pstatus = "parsing" /\ pstatus' = "parsing")
         => (pos' > pos /\ Len(parsed') = Len(parsed) + 1)]_vars
  /\ [][<<pstatus, pos>>' # <<pstatus, pos>>]_vars
  /\ <>ParseOver

\* parse returned a Root with an array whose item was parsed by a nested
\* parse_expr call: both calls succeeded and advanced pos
C21_Witness ==
  /\ pstatus = "parsed"
  /\ Len(parsed) = 1
  /\ parsed[1].k = "Array"
  /\ Len(plog) = 2
  /\ plog[1].res.t = "Ok" /\ plog[1].entry.pos = 1 /\ plog[1].exit.pos = 2
  /\ plog[2].res.t = "Ok" /\ plog[2].entry.pos = 0 /\ plog[2].exit.pos = 3

\* the words that are not identifiers
Keywords == {<<"t", "r", "u", "e">>, <<"f", "a", "l", "s", "e">>, <<"n", "i", "l">>}

\* the whole source is one run of identifier characters and not a keyword
IsIdentRun(src) ==
  /\ Len(src) > 0
  /\ \A i \in DOMAIN src : is_ident_char(src[i])
  /\ src \notin Keywords

\* C22: a source that is one run of identifier characters, other than true,
\* false and nil, parses to a single Ident holding the whole run, also when
\* the run begins with true, false or nil followed by an identifier character
\* that is not a letter
C22_IdentRunIsOneIdent ==
  IsIdentRun(source) =>
    /\ pstatus \notin {"failed", "index out of bounds"}
    /\ parsed \in {<<>>, <<Ident(source)>>}
    /\ (pstatus = "parsed") => (root = <<Ident(source)>>)

\* C23: a source made of '-', digits, '.', digits parses to the Float that
\* is the negation of the value of the same text without the '-'
C23_NegativeFloatIsNegation ==
  (Len(source) > 0 /\ source[1] = "-") =>
    \A k \in DecimalPoints(Tail(source)) :
      /\ pstatus \notin {"failed", "index out of bounds"}
      /\ parsed \in {<<>>, <<Float(0 - DecimalValue(Tail(source), k))>>}
      /\ (pstatus = "parsed") => (root = <<Float(0 - DecimalValue(Tail(source), k))>>)

====
